---- MODULE Spec2Model ----
(***************************************************************************)
(* A model of the type-level operators of types-extension (src/src/*.ts).  *)
(*                                                                         *)
(* A TypeScript type is modelled as the set of its union members ("atoms"),*)
(* so `never` is the empty set, `A | B` is set union, and a distributive   *)
(* conditional type `T extends X ? Y : Z` maps over the members of T.      *)
(* strictNullChecks is assumed (null and undefined are members of their    *)
(* own), and exactOptionalPropertyTypes is not: the declared type of an    *)
(* optional property always contains `undefined`.                          *)
(*                                                                         *)
(* Types are compared structurally.                                        *)
(***************************************************************************)
EXTENDS Naturals, Sequences, FiniteSets

VARIABLES
    T,      \* first type argument of the operator applied
    U,      \* second type argument (Never when the operator takes one)
    op,     \* the operator last applied, "none" before any
    from,   \* the operator that produced T, "none" for a caller's own type
    out     \* the type the operator evaluated to

vars == <<T, U, op, from, out>>

(***************************************************************************)
(* Bounds of the model.                                                    *)
(***************************************************************************)
MaxDepth == 2      \* nesting depth of the schemas the deep transforms get

(***************************************************************************)
(* The type universe.                                                      *)
(***************************************************************************)
NoFields == [n \in {} |-> {}]

Never == {}

\* One union member.  tag: "prim" (a Primitive of basic.ts, kind: null, undefined, string, number,
\* boolean, symbol), "lit" (the string literal type kind), "fn" (a callable),
\* "arr" (elem[], or readonly elem[] when ro), "obj" (an object type, fields
\* maps each property name to [shape, optional, readonly]), "error" (the
\* instantiation violates a type parameter's constraint).
Atom(tag, kind, ro, elem, fields) ==
    [tag |-> tag, kind |-> kind, ro |-> ro, elem |-> elem, fields |-> fields]

Prim(kind) == Atom("prim", kind, FALSE, Never, NoFields)
Lit(name) == Atom("lit", name, FALSE, Never, NoFields)
Fn == Atom("fn", "", FALSE, Never, NoFields)
Arr(elem, ro) == Atom("arr", "", ro, elem, NoFields)
Obj(fields) == Atom("obj", "", FALSE, Never, fields)
ConstraintError == Atom("error", "", FALSE, Never, NoFields)

Null == Prim("null")
Undefined == Prim("undefined")
String == Prim("string")
Number == Prim("number")
Boolean == Prim("boolean")

\* A property: its declared type, and its `?` and `readonly` modifiers.
Field(shape, optional, readonly) ==
    [shape |-> shape, optional |-> optional, readonly |-> readonly]

\* `name: shape` and `name?: shape` as a declaration gives them (the declared
\* type of an optional property contains undefined).
Required(shape) == Field(shape, FALSE, FALSE)
Optional(shape) == Field(shape \cup {Undefined}, TRUE, FALSE)

Names(a) == DOMAIN a.fields

(***************************************************************************)
(* The conditions of the conditional types.                                *)
(***************************************************************************)
\* T extends (...args: any[]) => any, T extends Function
IsFunction(a) == a.tag = "fn"
\* T extends any[], T extends Array<infer U>: a readonly array is neither.
IsArray(a) == a.tag = "arr" /\ ~a.ro
\* T extends object
IsObject(a) == a.tag \in {"obj", "arr", "fn"}

(***************************************************************************)
(* basic.ts and the library's NonNullable.                                 *)
(***************************************************************************)
\* A extends undefined ? never : A
NonUndefined(A) == {a \in A : a # Undefined}

\* lib: T extends null | undefined ? never : T
NonNullable(A) == {a \in A : a \notin {Null, Undefined}}

(***************************************************************************)
(* object.ts: the deep transforms.  A homomorphic mapped type keeps each   *)
(* property's modifiers unless it states one (`readonly`, `?`, `-?`); it   *)
(* adds undefined to the type of a property it leaves or makes optional,   *)
(* and over an array type it maps the element type.                        *)
(***************************************************************************)
RECURSIVE DeepReadonly(_), DeepRequired(_), DeepNonNullable(_), DeepPartial(_)

\* A mutant: the array helper without the recursion into the elements.
_DeepReadonlyArrayShallow(E) == {Arr(E, TRUE)}

\* interface _DeepReadonlyArray<T> extends ReadonlyArray<DeepReadonly<T>>
_DeepReadonlyArray(E) == {Arr(DeepReadonly(E), TRUE)}

\* { readonly [P in keyof T]: DeepReadonly<T[P]> }
_DeepReadonlyObject(S) ==
    { IF a.tag = "obj"
        THEN Obj([n \in Names(a) |->
                Field(DeepReadonly(a.fields[n].shape), a.fields[n].optional, TRUE)])
      ELSE IF a.tag = "arr" THEN Arr(DeepReadonly(a.elem), TRUE)
      ELSE a : a \in S }

DeepReadonly(S) ==
    UNION { IF IsFunction(a) THEN {a}
            ELSE IF IsArray(a) THEN _DeepReadonlyArray(a.elem)
            ELSE IF IsObject(a) THEN _DeepReadonlyObject({a})
            ELSE {a} : a \in S }

\* interface _DeepRequiredArray<T> extends Array<DeepRequired<NonUndefined<T>>>
_DeepRequiredArray(E) == {Arr(DeepRequired(NonUndefined(E)), FALSE)}

\* A mutant: the mapped type without its `-?`.
_DeepRequiredObjectKeepsOptional(S) ==
    { IF a.tag = "obj"
        THEN Obj([n \in Names(a) |->
                LET f == a.fields[n]
                    t == DeepRequired(NonUndefined(f.shape))
                IN  Field(IF f.optional THEN t \cup {Undefined} ELSE t,
                          f.optional, f.readonly)])
      ELSE IF a.tag = "arr" THEN Arr(DeepRequired(NonUndefined(a.elem)), a.ro)
      ELSE a : a \in S }

\* { [P in keyof T]-?: DeepRequired<NonUndefined<T[P]>> }
_DeepRequiredObject(S) ==
    { IF a.tag = "obj"
        THEN Obj([n \in Names(a) |->
                Field(DeepRequired(NonUndefined(a.fields[n].shape)),
                      FALSE, a.fields[n].readonly)])
      ELSE IF a.tag = "arr" THEN Arr(DeepRequired(NonUndefined(a.elem)), a.ro)
      ELSE a : a \in S }

DeepRequired(S) ==
    UNION { IF IsFunction(a) THEN {a}
            ELSE IF IsArray(a) THEN _DeepRequiredArray(a.elem)
            ELSE IF IsObject(a) THEN _DeepRequiredObject({a})
            ELSE {a} : a \in S }

\* interface _DeepNonNullableArray<T> extends Array<DeepNonNullable<NonNullable<T>>>
_DeepNonNullableArray(E) == {Arr(DeepNonNullable(NonNullable(E)), FALSE)}

\* A mutant: NonUndefined where the code has NonNullable.
_DeepNonNullableObjectKeepsNull(S) ==
    { IF a.tag = "obj"
        THEN Obj([n \in Names(a) |->
                Field(DeepNonNullable(NonUndefined(a.fields[n].shape)),
                      FALSE, a.fields[n].readonly)])
      ELSE IF a.tag = "arr" THEN Arr(DeepNonNullable(NonUndefined(a.elem)), a.ro)
      ELSE a : a \in S }

\* { [P in keyof T]-?: DeepNonNullable<NonNullable<T[P]>> }
_DeepNonNullableObject(S) ==
    { IF a.tag = "obj"
        THEN Obj([n \in Names(a) |->
                Field(DeepNonNullable(NonNullable(a.fields[n].shape)),
                      FALSE, a.fields[n].readonly)])
      ELSE IF a.tag = "arr" THEN Arr(DeepNonNullable(NonNullable(a.elem)), a.ro)
      ELSE a : a \in S }

DeepNonNullable(S) ==
    UNION { IF IsFunction(a) THEN {a}
            ELSE IF IsArray(a) THEN _DeepNonNullableArray(a.elem)
            ELSE IF IsObject(a) THEN _DeepNonNullableObject({a})
            ELSE {a} : a \in S }

\* interface _DeepPartialArray<T> extends Array<DeepPartial<T>>
_DeepPartialArray(E) == {Arr(DeepPartial(E), FALSE)}

\* { [P in keyof T]?: DeepPartial<T[P]> }
_DeepPartialObject(S) ==
    { IF a.tag = "obj"
        THEN Obj([n \in Names(a) |->
                Field(DeepPartial(a.fields[n].shape) \cup {Undefined},
                      TRUE, a.fields[n].readonly)])
      ELSE IF a.tag = "arr" THEN Arr(DeepPartial(a.elem) \cup {Undefined}, a.ro)
      ELSE a : a \in S }

\* A mutant: the last branch as the other three transforms have it.
DeepPartialLeafUnchanged(a) == {a}

\* The last branch of DeepPartial: T | undefined
DeepPartialLeaf(a) == {a, Undefined}

DeepPartial(S) ==
    UNION { IF IsFunction(a) THEN {a}
            ELSE IF IsArray(a) THEN _DeepPartialArray(a.elem)
            ELSE IF IsObject(a) THEN _DeepPartialObject({a})
            ELSE DeepPartialLeaf(a) : a \in S }

(***************************************************************************)
(* The schemas a caller hands to the deep transforms: Primitive, Opaque,   *)
(* Sequence and Record nodes, each alone or in a Union with null and/or    *)
(* undefined, nested to a bounded depth.                                   *)
(***************************************************************************)
Nullish == {Null, Undefined}

WithNullish(cores) == {c \cup n : c \in cores, n \in SUBSET Nullish} \ {Never}

\* The properties a record may declare with a type of `types`.
FieldsOf(types) ==
    {Required(t) : t \in types} \cup {Optional(t) : t \in types}

RECURSIVE Schemas(_)
Schemas(d) ==
    IF d = 0 THEN WithNullish({{String}, {Fn}, Never})
    ELSE LET sub == Schemas(d - 1)
             fs == FieldsOf(sub)
         IN  WithNullish(
                {{String}, {Fn}, Never}
                \cup {{Arr(t, FALSE)} : t \in sub}
                \cup {{Obj([n \in {"a"} |-> f])} : f \in fs}
                \cup {{Obj([n \in {"a", "b"} |-> IF n = "a" THEN f ELSE Required({String})])}
                        : f \in fs})

\* The kinds of basic.ts's Primitive, and the leaf schemas: each Primitive and
\* the Opaque callable, alone.
PrimitiveKinds == {"null", "undefined", "string", "number", "boolean", "symbol"}

Leaves == {{Prim(k)} : k \in PrimitiveKinds} \cup {{Fn}}

DeepOps == {"DeepReadonly", "DeepPartial", "DeepRequired", "DeepNonNullable"}

ApplyDeep(f, S) ==
    CASE f = "DeepReadonly" -> DeepReadonly(S)
      [] f = "DeepPartial" -> DeepPartial(S)
      [] f = "DeepRequired" -> DeepRequired(S)
      [] f = "DeepNonNullable" -> DeepNonNullable(S)

InitDeep ==
    /\ T \in Schemas(MaxDepth) \cup Leaves
    /\ U = Never
    /\ op = "none"
    /\ from = "none"
    /\ out = Never

\* type R = DeepReadonly<T>, and likewise below.
ApplyDeepReadonly ==
    /\ op = "none"
    /\ op' = "DeepReadonly"
    /\ out' = DeepReadonly(T)
    /\ UNCHANGED <<T, U, from>>

ApplyDeepPartial ==
    /\ op = "none"
    /\ op' = "DeepPartial"
    /\ out' = DeepPartial(T)
    /\ UNCHANGED <<T, U, from>>

ApplyDeepRequired ==
    /\ op = "none"
    /\ op' = "DeepRequired"
    /\ out' = DeepRequired(T)
    /\ UNCHANGED <<T, U, from>>

ApplyDeepNonNullable ==
    /\ op = "none"
    /\ op' = "DeepNonNullable"
    /\ out' = DeepNonNullable(T)
    /\ UNCHANGED <<T, U, from>>

\* A derived schema is handed to the transform that derived it: F<F<T>>.
Reapply ==
    /\ op \in DeepOps
    /\ from = "none"
    /\ T' = out
    /\ from' = op
    /\ out' = ApplyDeep(op, out)
    /\ UNCHANGED <<U, op>>

NextDeep ==
    \/ ApplyDeepReadonly
    \/ ApplyDeepPartial
    \/ ApplyDeepRequired
    \/ ApplyDeepNonNullable
    \/ Reapply

SpecDeep == InitDeep /\ [][NextDeep]_vars

(***************************************************************************)
(* Assignability (`A extends B`), as far as the types of the model go:     *)
(* a primitive to itself, a string literal to itself and to string, a      *)
(* callable to a callable, arrays by their elements (a readonly array is   *)
(* not assignable to a mutable one), objects property by property.         *)
(***************************************************************************)
RECURSIVE Assignable(_, _)

AtomAssignable(a, b) ==
    \/ a = b
    \/ a.tag = "lit" /\ b = String
    \/ a.tag = "fn" /\ b.tag = "fn"
    \/ /\ a.tag = "arr" /\ b.tag = "arr"
       /\ (a.ro => b.ro)
       /\ Assignable(a.elem, b.elem)
    \/ /\ a.tag = "obj" /\ b.tag = "obj"
       /\ \A n \in Names(b) :
            IF n \in Names(a)
              THEN /\ Assignable(a.fields[n].shape, b.fields[n].shape)
                   /\ (a.fields[n].optional => b.fields[n].optional)
              ELSE b.fields[n].optional

\* Every member of A is assignable to some member of B; never is to anything.
Assignable(A, B) == \A a \in A : \E b \in B : AtomAssignable(a, b)

\* T extends object
ExtendsObject(S) == \A a \in S : IsObject(a)

(***************************************************************************)
(* The library types the source is written in.                             *)
(***************************************************************************)
\* lib: T extends U ? T : never
Extract(A, B) == {a \in A : Assignable({a}, B)}

\* lib: T extends U ? never : T
Exclude(A, B) == {a \in A : ~Assignable({a}, B)}

\* keyof T: the names every member declares; keyof never is every key type.
\* (The members of primitives, arrays and callables are not modelled.)
AtomKeys(a) == IF a.tag = "obj" THEN {Lit(n) : n \in Names(a)} ELSE {}

KeyOf(S) ==
    IF S = Never THEN {String, Number, Prim("symbol")}
    ELSE {k \in UNION {AtomKeys(a) : a \in S} : \A a \in S : k \in AtomKeys(a)}

\* The property names a key type selects among those of an object type.
Selected(a, K) == {n \in Names(a) : Assignable({Lit(n)}, K)}

\* lib: { [P in K]: T[P] }, homomorphic in T: it distributes over the members
\* of T (so Pick<never, K> is never) and keeps each property as declared.
Pick(S, K) ==
    { IF a.tag = "obj" THEN Obj([n \in Selected(a, K) |-> a.fields[n]]) ELSE a
        : a \in S }

\* A & B, member by member.  Two object types give the object type with the
\* properties of both (a property of both has both types); any other two
\* members have a common type only when they are the same.
AtomAnd(a, b) ==
    IF a.tag = "obj" /\ b.tag = "obj"
      THEN {Obj([n \in Names(a) \cup Names(b) |->
                IF n \in Names(a) /\ n \in Names(b)
                  THEN Field(a.fields[n].shape \cap b.fields[n].shape,
                             a.fields[n].optional /\ b.fields[n].optional,
                             a.fields[n].readonly /\ b.fields[n].readonly)
                ELSE IF n \in Names(a) THEN a.fields[n]
                ELSE b.fields[n]])}
    ELSE IF a = b THEN {a}
    ELSE Never

And(A, B) == UNION {AtomAnd(a, b) : a \in A, b \in B}

(***************************************************************************)
(* union.ts                                                                *)
(***************************************************************************)
Intersect(UnionType1, UnionType2) == Extract(UnionType1, UnionType2)

Substract(UnionType1, UnionType2) == Exclude(UnionType1, UnionType2)

\* Substract<UnionType1, UnionType1>: the second argument is not used.
ComplementOf(UnionType1, UnionType2) == Substract(UnionType1, UnionType1)

\* Complement<UnionType1, UnionType2 extends UnionType1>
Complement(UnionType1, UnionType2) ==
    IF ~Assignable(UnionType2, UnionType1) THEN {ConstraintError}
    ELSE ComplementOf(UnionType1, UnionType2)

(***************************************************************************)
(* object.ts: projections and merges.                                      *)
(***************************************************************************)
\* A mutant: the branches of the conditional type the other way round.
PickByValueInverted(ObjectType, ValueType) ==
    Pick(ObjectType,
         UNION { UNION { (IF Assignable(a.fields[Key].shape, ValueType)
                            THEN Never ELSE {Lit(Key)})
                         \cup (IF a.fields[Key].optional THEN {Undefined} ELSE Never)
                         : Key \in Names(a) }
                 : a \in {o \in ObjectType : o.tag = "obj"} })

\* { [Key in keyof ObjectType]: ObjectType[Key] extends ValueType ? Key : never
\* }[keyof ObjectType]: the mapped type is homomorphic, so an optional
\* property's entry also has undefined, which names no property.
PickByValue(ObjectType, ValueType) ==
    Pick(ObjectType,
         UNION { UNION { (IF Assignable(a.fields[Key].shape, ValueType)
                            THEN {Lit(Key)} ELSE Never)
                         \cup (IF a.fields[Key].optional THEN {Undefined} ELSE Never)
                         : Key \in Names(a) }
                 : a \in {o \in ObjectType : o.tag = "obj"} })

OmitByValue(ObjectType, ValueType) ==
    Pick(ObjectType,
         UNION { UNION { (IF Assignable(a.fields[Key].shape, ValueType)
                            THEN Never ELSE {Lit(Key)})
                         \cup (IF a.fields[Key].optional THEN {Undefined} ELSE Never)
                         : Key \in Names(a) }
                 : a \in {o \in ObjectType : o.tag = "obj"} })

\* A mutant: Extract where the code has Exclude.
OmitByKeyKeepsListed(ObjectType, KeyType) ==
    IF ~Assignable(KeyType, KeyOf(ObjectType)) THEN {ConstraintError}
    ELSE Pick(ObjectType, Extract(KeyOf(ObjectType), KeyType))

\* OmitByKey<ObjectType, KeyType extends keyof ObjectType>
OmitByKey(ObjectType, KeyType) ==
    IF ~Assignable(KeyType, KeyOf(ObjectType)) THEN {ConstraintError}
    ELSE Pick(ObjectType, Exclude(KeyOf(ObjectType), KeyType))

\* ObjectSubtract<T extends object, U extends object>
ObjectSubtract(T1, U1) ==
    IF ~(ExtendsObject(T1) /\ ExtendsObject(U1)) THEN {ConstraintError}
    ELSE Pick(T1, Substract(KeyOf(T1), KeyOf(U1)))

\* ObjectComplement<T extends T1, T1 extends object>
ObjectComplement(T0, T1) ==
    IF ~(ExtendsObject(T1) /\ Assignable(T0, T1)) THEN {ConstraintError}
    ELSE Pick(T0, Complement(KeyOf(T0), KeyOf(T1)))

\* MergeOverride<T extends object, U extends object,
\*               I = ObjectSubtract<T, U> & Intersect<U, T>> = Pick<I, keyof I>
MergeOverride(T1, U1) ==
    IF ~(ExtendsObject(T1) /\ ExtendsObject(U1)) THEN {ConstraintError}
    ELSE LET I == And(ObjectSubtract(T1, U1), Intersect(U1, T1))
         IN  Pick(I, KeyOf(I))

\* Merge<T extends object, U extends object,
\*       I = ObjectSubtract<T, U> & Intersect<U, T> & ObjectSubtract<U, T>>
Merge(T1, U1) ==
    IF ~(ExtendsObject(T1) /\ ExtendsObject(U1)) THEN {ConstraintError}
    ELSE LET I == And(And(ObjectSubtract(T1, U1), Intersect(U1, T1)),
                      ObjectSubtract(U1, T1))
         IN  Pick(I, KeyOf(I))

\* The names a key type holds as string literals.
LiteralNames(K) == {k.kind : k \in {x \in K : x.tag = "lit"}}

\* A mutant: the two key sets the other way round.
_WithoutSwapped(FirstType, SecondType) ==
    {Obj([KeyType \in LiteralNames(Exclude(KeyOf(SecondType), KeyOf(FirstType)))
            |-> Optional(Never)])}

\* { [KeyType in Exclude<keyof FirstType, keyof SecondType>]?: never }
_Without(FirstType, SecondType) ==
    {Obj([KeyType \in LiteralNames(Exclude(KeyOf(FirstType), KeyOf(SecondType)))
            |-> Optional(Never)])}

MergeExclusive(FirstType, SecondType) ==
    IF ExtendsObject(FirstType \cup SecondType)
      THEN And(_Without(FirstType, SecondType), SecondType)
           \cup And(_Without(SecondType, FirstType), FirstType)
    ELSE FirstType \cup SecondType

(***************************************************************************)
(* The records, key sets and value types a caller hands to the projections *)
(* and merges.                                                             *)
(***************************************************************************)
PropertyNames == {"name", "age", "visible", "other"}

\* The declarations a record may give each property.
Menu(n) ==
    CASE n = "name" -> {Required({String})}
      [] n = "age" -> {Required({Number}), Required({String}), Optional({Number})}
      [] n = "visible" -> {Required({Boolean})}
      [] n = "other" -> {Required({String}), Optional({String})}

Records ==
    UNION { { {Obj(f)} : f \in {g \in [D -> UNION {Menu(n) : n \in D}]
                                  : \A n \in D : g[n] \in Menu(n)} }
            : D \in SUBSET PropertyNames }

KeySets == SUBSET {Lit(n) : n \in PropertyNames}

ValueTypes == SUBSET {String, Number, Boolean, Undefined}

InitRecord ==
    /\ \E args \in (Records \X (Records \cup KeySets \cup ValueTypes))
                      \cup (KeySets \X KeySets) :
            T = args[1] /\ U = args[2]
    /\ op = "none"
    /\ from = "none"
    /\ out = Never

ApplyPickByValue ==
    /\ op = "none"
    /\ op' = "PickByValue"
    /\ out' = PickByValue(T, U)
    /\ UNCHANGED <<T, U, from>>

ApplyOmitByValue ==
    /\ op = "none"
    /\ op' = "OmitByValue"
    /\ out' = OmitByValue(T, U)
    /\ UNCHANGED <<T, U, from>>

ApplyOmitByKey ==
    /\ op = "none"
    /\ op' = "OmitByKey"
    /\ out' = OmitByKey(T, U)
    /\ UNCHANGED <<T, U, from>>

ApplyComplement ==
    /\ op = "none"
    /\ op' = "Complement"
    /\ out' = Complement(T, U)
    /\ UNCHANGED <<T, U, from>>

ApplyObjectComplement ==
    /\ op = "none"
    /\ op' = "ObjectComplement"
    /\ out' = ObjectComplement(T, U)
    /\ UNCHANGED <<T, U, from>>

ApplyMergeOverride ==
    /\ op = "none"
    /\ op' = "MergeOverride"
    /\ out' = MergeOverride(T, U)
    /\ UNCHANGED <<T, U, from>>

ApplyMerge ==
    /\ op = "none"
    /\ op' = "Merge"
    /\ out' = Merge(T, U)
    /\ UNCHANGED <<T, U, from>>

ApplyMergeExclusive ==
    /\ op = "none"
    /\ op' = "MergeExclusive"
    /\ out' = MergeExclusive(T, U)
    /\ UNCHANGED <<T, U, from>>

NextRecord ==
    \/ ApplyPickByValue
    \/ ApplyOmitByValue
    \/ ApplyOmitByKey
    \/ ApplyComplement
    \/ ApplyObjectComplement
    \/ ApplyMergeOverride
    \/ ApplyMerge
    \/ ApplyMergeExclusive

SpecRecord == InitRecord /\ [][NextRecord]_vars

(***************************************************************************)
(* What the properties below are stated with.                              *)
(***************************************************************************)
\* A Record: one object type, alone.
IsRecord(S) == Cardinality(S) = 1 /\ \A a \in S : a.tag = "obj"

RecordOf(S) == CHOOSE a \in S : TRUE

FieldNames(S) == Names(RecordOf(S))

\* A set of names: a union of string literal types.
IsKeySet(S) == \A a \in S : a.tag = "lit"

\* The Record with the fields of R named in `names`, each as R has it.
Restricted(R, names) ==
    {Obj([n \in FieldNames(R) \cap names |-> RecordOf(R).fields[n]])}

\* A leaf schema: one Primitive or one Opaque, alone.
IsLeaf(S) == Cardinality(S) = 1 /\ \A a \in S : a.tag \in {"prim", "fn"}

\* Every Field of a schema at every nesting depth, with the path to it: the
\* names of the fields gone through, and "[]" for a Sequence's elements.
RECURSIVE AllFields(_)
AllFields(S) ==
    UNION { IF a.tag = "obj"
              THEN UNION { {[path |-> <<n>>, field |-> a.fields[n]]}
                           \cup {[path |-> <<n>> \o r.path, field |-> r.field]
                                    : r \in AllFields(a.fields[n].shape)}
                           : n \in Names(a) }
            ELSE IF a.tag = "arr"
              THEN {[path |-> <<"[]">> \o r.path, field |-> r.field]
                        : r \in AllFields(a.elem)}
            ELSE {} : a \in S }

\* A field marked impossible: `name?: never`.
Impossible == Optional(Never)

\* The variant of MergeExclusive that holds X: every field of X, and every
\* name only Y has marked impossible.
Variant(X, Y) ==
    Obj([n \in FieldNames(X) \cup FieldNames(Y) |->
            IF n \in FieldNames(X) THEN RecordOf(X).fields[n] ELSE Impossible])

\* The instances: each supplies a value of some kind for some of the names.
Instances ==
    UNION {[D -> {"string", "number", "boolean"}] : D \in SUBSET PropertyNames}

\* inst conforms to the object type a: a field it supplies has a value of the
\* field's shape, a field it does not supply is optional.
Conforms(inst, a) ==
    \A n \in Names(a) :
        IF n \in DOMAIN inst THEN Prim(inst[n]) \in a.fields[n].shape
        ELSE a.fields[n].optional

\* No instance of the type S supplies a field only T has and one only U has.
NoMixture(S) ==
    \A inst \in Instances :
        (\E a \in S : Conforms(inst, a))
            => ~ \E x \in FieldNames(T) \ FieldNames(U),
                    y \in FieldNames(U) \ FieldNames(T) :
                        x \in DOMAIN inst /\ y \in DOMAIN inst

(***************************************************************************)
(* C1.  Merge(T, U) is the Record with the names of T and of U, in which   *)
(* every name of U carries U's field and every other name T's field.       *)
(* The code evaluates to never whenever U is not assignable to T.          *)
(***************************************************************************)
C1_MergeIsAssign ==
    (op = "Merge" /\ IsRecord(T) /\ IsRecord(U))
        => out = {Obj([n \in FieldNames(T) \cup FieldNames(U) |->
                        IF n \in FieldNames(U) THEN RecordOf(U).fields[n]
                        ELSE RecordOf(T).fields[n]])}

(***************************************************************************)
(* C2.  MergeOverride(T, U) has exactly the names of T: a name of U too    *)
(* carries U's field, any other T's field; the names only U has are        *)
(* dropped.  The code evaluates to never whenever U is not assignable to   *)
(* T, and keeps the names only U has when it is.                           *)
(***************************************************************************)
C2_MergeOverrideKeepsNamesOfT ==
    (op = "MergeOverride" /\ IsRecord(T) /\ IsRecord(U))
        => out = {Obj([n \in FieldNames(T) |->
                        IF n \in FieldNames(U) THEN RecordOf(U).fields[n]
                        ELSE RecordOf(T).fields[n]])}

C4_Idempotent == from \in DeepOps => out = T

C4_Witness ==
    /\ from = "DeepReadonly"
    /\ \E r \in AllFields(out) : Len(r.path) >= 2 /\ "[]" \in {r.path[i] : i \in 1..Len(r.path)}

(***************************************************************************)
(* C5.  Complement(A, A1), for A1 a subset of A, is the set of the names   *)
(* of A that are not in A1, and ObjectComplement(T, T1) keeps exactly the  *)
(* fields of T whose names are not in T1.  The code evaluates Complement   *)
(* to the empty set, and ObjectComplement to the empty Record.             *)
(***************************************************************************)
C5_ComplementIsDifference ==
    /\ (op = "Complement" /\ IsKeySet(T) /\ IsKeySet(U) /\ U \subseteq T)
            => out = T \ U
    /\ (op = "ObjectComplement" /\ IsRecord(T) /\ IsRecord(U) /\ Assignable(T, U))
            => out = Restricted(T, FieldNames(T) \ FieldNames(U))

(***************************************************************************)
(* C6, as claimed.  OmitByKey(R, K) succeeds for every name set K, also    *)
(* one with names R does not have, and is the Record with the fields of R  *)
(* whose names are not in K.                                               *)
(***************************************************************************)
C6_OmitIsPermissive ==
    (op = "OmitByKey" /\ IsRecord(T) /\ IsKeySet(U))
        => out = Restricted(T, FieldNames(T) \ LiteralNames(U))

(***************************************************************************)
(* C6, amended.  For K among the names of R, OmitByKey(R, K) is the Record *)
(* with the fields of R whose names are not in K, each unchanged; a K with *)
(* a name R does not have violates the constraint of KeyType.              *)
(***************************************************************************)
C6_OmitWithinNames ==
    (op = "OmitByKey" /\ IsRecord(T) /\ IsKeySet(U))
        => IF LiteralNames(U) \subseteq FieldNames(T)
             THEN out = Restricted(T, FieldNames(T) \ LiteralNames(U))
             ELSE out = {ConstraintError}

C6_Witness ==
    /\ op = "OmitByKey" /\ IsRecord(T) /\ IsKeySet(U)
    /\ U # Never
    /\ LiteralNames(U) \subseteq FieldNames(T)
    /\ IsRecord(out)
    /\ FieldNames(out) # {}
    /\ FieldNames(out) # FieldNames(T)

(***************************************************************************)
(* C7.  PickByValue(R, p) keeps exactly the fields of R whose shape        *)
(* satisfies p, OmitByValue(R, p) exactly those whose shape does not, each *)
(* unchanged; the two have no name in common and all names of R between    *)
(* them.  (p is "the shape is assignable to ValueType".)                   *)
(***************************************************************************)
C7_ValueProjectionsPartition ==
    IsRecord(T) =>
        LET holds == {n \in FieldNames(T) : Assignable(RecordOf(T).fields[n].shape, U)}
        IN  /\ op = "PickByValue" => out = Restricted(T, holds)
            /\ op = "OmitByValue" => out = Restricted(T, FieldNames(T) \ holds)
            /\ op \in {"PickByValue", "OmitByValue"} =>
                /\ FieldNames(PickByValue(T, U)) \cap FieldNames(OmitByValue(T, U)) = {}
                /\ FieldNames(PickByValue(T, U)) \cup FieldNames(OmitByValue(T, U))
                        = FieldNames(T)

C7_Witness ==
    /\ op = "PickByValue"
    /\ U = {String, Number}
    /\ IsRecord(T) /\ FieldNames(T) = {"name", "age", "visible"}
    /\ RecordOf(T).fields["age"] = Required({Number})
    /\ IsRecord(out) /\ FieldNames(out) = {"name", "age"}

(***************************************************************************)
(* C8, as claimed.  Every deep transform leaves a Primitive or Opaque leaf *)
(* schema as it is.                                                        *)
(***************************************************************************)
C8_LeafIsFixedPoint ==
    (op \in DeepOps /\ IsLeaf(T)) => out = T

(***************************************************************************)
(* C8, amended.  DeepReadonly, DeepRequired and DeepNonNullable leave a    *)
(* Primitive or Opaque leaf schema as it is, and DeepPartial leaves an     *)
(* Opaque leaf as it is; DeepPartial of a Primitive leaf S is the Union of *)
(* S and undefined.                                                        *)
(***************************************************************************)
C8_LeafFixedButPartialPrimitive ==
    (op \in DeepOps /\ IsLeaf(T))
        => out = IF op = "DeepPartial" /\ RecordOf(T).tag = "prim"
                   THEN T \cup {Undefined}
                   ELSE T

C8_Witness ==
    /\ op = "DeepPartial"
    /\ T = {String}
    /\ out = {String, Undefined}

(***************************************************************************)
(* C9, as claimed.  Each Field of DeepNonNullable(S) has the optional flag *)
(* of the corresponding Field of S, and null and undefined are removed     *)
(* from its shape.                                                         *)
(***************************************************************************)
C9_OptionalUnchanged ==
    op = "DeepNonNullable" =>
        \A r \in AllFields(out) :
            /\ \E s \in AllFields(T) :
                    s.path = r.path /\ s.field.optional = r.field.optional
            /\ r.field.shape \cap Nullish = {}

(***************************************************************************)
(* C9, amended.  Each Field of DeepNonNullable(S), at every depth, is the  *)
(* Field of S at the same place with optional = false and with null and    *)
(* undefined removed from its shape.                                       *)
(***************************************************************************)
C9_OptionalCleared ==
    op = "DeepNonNullable" =>
        \A r \in AllFields(out) :
            /\ \E s \in AllFields(T) : s.path = r.path
            /\ ~r.field.optional
            /\ r.field.shape \cap Nullish = {}

C9_Witness ==
    /\ op = "DeepNonNullable"
    /\ from = "none"
    /\ \E s \in AllFields(T) :
            /\ Len(s.path) >= 2
            /\ s.field.optional
            /\ Null \in s.field.shape
            /\ String \in s.field.shape
            /\ \E r \in AllFields(out) : r.path = s.path

(***************************************************************************)
(* C10, as claimed.  Every Field of DeepRequired(S), at every depth, has   *)
(* optional = false and a shape without null and without undefined.        *)
(***************************************************************************)
C10_RequiredAndNotNull ==
    op = "DeepRequired" =>
        \A r \in AllFields(out) :
            ~r.field.optional /\ r.field.shape \cap Nullish = {}

(***************************************************************************)
(* C10, amended.  Every Field of DeepRequired(S), at every depth (also in  *)
(* the Records in Sequences), has optional = false and a shape without     *)
(* undefined; a null alternative of its shape is kept.                     *)
(***************************************************************************)
C10_RequiredAndDefined ==
    op = "DeepRequired" =>
        \A r \in AllFields(out) :
            /\ ~r.field.optional
            /\ Undefined \notin r.field.shape
            /\ \A s \in AllFields(T) :
                    s.path = r.path => (Null \in r.field.shape <=> Null \in s.field.shape)

C10_Witness ==
    /\ op = "DeepRequired"
    /\ from = "none"
    /\ \E s \in AllFields(T) :
            /\ Len(s.path) >= 2
            /\ s.path[1] = "[]"
            /\ s.field.optional
            /\ Null \in s.field.shape
            /\ \E r \in AllFields(out) : r.path = s.path /\ Null \in r.field.shape

====
